---- MODULE Spec2Model ----
(***************************************************************************)
(* Weather Dashboard API (backend/main.py): a FastAPI gateway in front of  *)
(* the OpenWeather REST API.  The model covers the four routes, the two    *)
(* process-wide Prometheus accumulators and the single suspension point of *)
(* get_weather (the awaited outbound GET).                                 *)
(*                                                                         *)
(* Strings that the code transforms (the weather description) are          *)
(* sequences of one-character strings; strings that are only copied are    *)
(* TLA+ strings.  Floats are represented by integers.                      *)
(***************************************************************************)
EXTENDS Integers, Sequences, FiniteSets, TLC

(* ---------------------------- bounds ----------------------------------- *)
MaxConc == 2        \* handler tasks that can be in flight at once
MaxRequests == 3    \* calls to /weather/{city} made in one behaviour
MaxLen == 2         \* length of the enumerated upstream descriptions

Slots == 1..MaxConc
Cities == {"London", "Atlantis"}

(* ---------------------------- characters ------------------------------- *)
Lo == <<"a","b","c","d","e","f","g","h","i","j","k","l","m",
        "n","o","p","q","r","s","t","u","v","w","x","y","z">>
Up == <<"A","B","C","D","E","F","G","H","I","J","K","L","M",
        "N","O","P","Q","R","S","T","U","V","W","X","Y","Z">>

IsLower(c) == \E i \in 1..Len(Lo) : Lo[i] = c
IsUpper(c) == \E i \in 1..Len(Up) : Up[i] = c
ToUpper(c) == IF IsLower(c) THEN Up[CHOOSE i \in 1..Len(Lo) : Lo[i] = c] ELSE c
ToLower(c) == IF IsUpper(c) THEN Lo[CHOOSE i \in 1..Len(Up) : Up[i] = c] ELSE c

(* str.title(): scan left to right; a cased character is upper-cased when  *)
(* the previous character is not cased and lower-cased when it is; an      *)
(* uncased character is kept and ends the word.                            *)
RECURSIVE TitleRec(_, _)
TitleRec(s, prevCased) ==
    IF s = <<>> THEN <<>>
    ELSE LET c == Head(s) IN
         IF IsLower(c)
         THEN <<IF prevCased THEN c ELSE ToUpper(c)>> \o TitleRec(Tail(s), TRUE)
         ELSE IF IsUpper(c)
         THEN <<IF prevCased THEN ToLower(c) ELSE c>> \o TitleRec(Tail(s), TRUE)
         ELSE <<c>> \o TitleRec(Tail(s), FALSE)

\* str.capitalize() in place of str.title(): only the first word is capitalised
title_capitalize(s) ==
    IF s = <<>> THEN <<>>
    ELSE <<ToUpper(Head(s))>> \o [i \in 1..(Len(s) - 1) |-> ToLower(s[i + 1])]

title(s) == TitleRec(s, FALSE)

(* ---------------------------- configuration ---------------------------- *)
NoneVal == "<None>"                      \* os.getenv of an unset variable
ApiKeys == {NoneVal, "", "secret"}
BaseUrls == {NoneVal, "https://api.openweathermap.org/data/2.5"}

\* "api_key is None" in place of "not api_key": an empty key passes
key_missing_is_none(k) == k = NoneVal

\* the test "not api_key"
key_missing(k) == k = NoneVal \/ k = ""

(* ---------------------------- upstream --------------------------------- *)
Paths == {"name", "main.temp", "main.humidity", "weather.0.description",
          "weather.0.icon", "wind.speed", "sys.country"}

DescAlphabet == {"a", "B", " "}
RECURSIVE SeqsUpTo(_)
SeqsUpTo(n) ==
    IF n = 0 THEN {<<>>}
    ELSE LET S == SeqsUpTo(n - 1) IN
         S \cup {Append(s, c) : s \in {t \in S : Len(t) = n - 1}, c \in DescAlphabet}

SampleDescriptions ==
    { <<"l","i","g","h","t"," ","r","a","i","n">>,
      <<"L","I","G","H","T"," ","R","A","I","N">>,
      <<"f","E","W"," ","c","L","o","u","d","s">>,
      <<"t","h","e","y","'","r","e">> }

Descriptions == SeqsUpTo(MaxLen) \cup SampleDescriptions

Places ==
    { [name |-> "London", temp |-> 12, humidity |-> 81, speed |-> 4,
       icon |-> "10d", country |-> "GB"],
      [name |-> "Lahore", temp |-> 31, humidity |-> 40, speed |-> 2,
       icon |-> "01d", country |-> "PK"] }

Statuses == {200, 401, 404, 429, 500}

NoData == [name |-> "", temp |-> 0, humidity |-> 0, speed |-> 0,
           icon |-> "", country |-> "", description |-> <<>>]

NoUp == [kind |-> "none", status |-> 0, json |-> FALSE, present |-> {},
         typed |-> FALSE, data |-> NoData]

\* the outbound GET raised an httpx.RequestError
TransportFailure == [kind |-> "error", status |-> 0, json |-> FALSE,
                     present |-> {}, typed |-> FALSE, data |-> NoData]

Payload(p, d) == [name |-> p.name, temp |-> p.temp, humidity |-> p.humidity,
                  speed |-> p.speed, icon |-> p.icon, country |-> p.country,
                  description |-> d]

Good(p, d) == [kind |-> "response", status |-> 200, json |-> TRUE,
              present |-> Paths, typed |-> TRUE, data |-> Payload(p, d)]

\* responses with all expected fields: every enumerated description for one
\* place, the sample descriptions for every place
GoodResponses ==
    { Good(CHOOSE p \in Places : p.name = "London", d) : d \in Descriptions }
    \cup { Good(p, d) : p \in Places, d \in SampleDescriptions }

SamplePayload == Payload(CHOOSE p \in Places : p.name = "London",
                         <<"l","i","g","h","t"," ","r","a","i","n">>)

\* status 200 with a body that is not JSON, lacks one field, or has a
\* field of a type WeatherResponse rejects
MalformedResponses ==
    { [kind |-> "response", status |-> 200, json |-> FALSE, present |-> {},
       typed |-> FALSE, data |-> NoData] }
    \cup { [kind |-> "response", status |-> 200, json |-> TRUE,
            present |-> Paths \ {f}, typed |-> TRUE, data |-> SamplePayload]
           : f \in Paths }
    \cup { [kind |-> "response", status |-> 200, json |-> TRUE,
            present |-> Paths, typed |-> FALSE, data |-> SamplePayload] }

\* a non-200 status, with a JSON error body or not
ErrorResponses ==
    { [kind |-> "response", status |-> st, json |-> j, present |-> {},
       typed |-> FALSE, data |-> NoData] : st \in Statuses \ {200}, j \in BOOLEAN }

Outcomes == {TransportFailure} \cup GoodResponses \cup MalformedResponses
            \cup ErrorResponses

(* ---------------------------- exceptions ------------------------------- *)
HTTPException(st, d) == [type |-> "HTTPException", status |-> st, msg |-> d]
RequestError == [type |-> "RequestError", status |-> 0, msg |-> "connect failed"]
JSONDecodeError == [type |-> "JSONDecodeError", status |-> 0,
                    msg |-> "Expecting value: line 1 column 1 (char 0)"]
KeyError(k) == [type |-> "KeyError", status |-> 0, msg |-> k]
ValidationError == [type |-> "ValidationError", status |-> 0,
                    msg |-> "validation error for WeatherResponse"]

\* str(e).  For HTTPException the text depends on the installed Starlette:
\* "<status>: <detail>" where __str__ is defined, the empty string otherwise.
str(e) ==
    IF e.type = "HTTPException"
    THEN { <<e.status, e.msg>>, <<>> }
    ELSE { <<e.msg>> }

NoBody == [kind |-> "none"]

Failure(st, d) == [status |-> st, detail |-> d, body |-> NoBody, observed |-> FALSE]

\* a single "except Exception" clause: RequestError takes the catch-all too
except_clauses_catchall(e) == { Failure(500, d) : d \in str(e) }

\* the two except clauses of get_weather, in their order
except_clauses(e) ==
    IF e.type = "RequestError"
    THEN { Failure(503, <<"Weather service unavailable">>) }
    ELSE { Failure(500, d) : d \in str(e) }

(* ---------------------------- get_weather ------------------------------ *)
Lookup ==
    << <<"name", "name">>, <<"main.temp", "temp">>,
       <<"weather.0.description", "description">>,
       <<"main.humidity", "humidity">>, <<"wind.speed", "speed">>,
       <<"weather.0.icon", "icon">>, <<"sys.country", "country">> >>

\* the first field, in the order the constructor's arguments are evaluated,
\* that the body lacks (0 if none)
FirstMissing(out) ==
    IF \A i \in 1..Len(Lookup) : Lookup[i][1] \in out.present THEN 0
    ELSE CHOOSE i \in 1..Len(Lookup) :
            /\ Lookup[i][1] \notin out.present
            /\ \A j \in 1..(i - 1) : Lookup[j][1] \in out.present

WeatherResponse(data) ==
    [kind |-> "WeatherResponse",
     city |-> data.name,
     temperature |-> data.temp,
     description |-> title(data.description),
     humidity |-> data.humidity,
     wind_speed |-> data.speed,
     icon |-> data.icon,
     country |-> data.country]

\* dict.get with defaults in place of subscripts: absent fields are filled in
parse_lenient(out) ==
    IF ~out.json THEN [ok |-> FALSE, exc |-> JSONDecodeError, value |-> NoBody]
    ELSE IF ~out.typed THEN [ok |-> FALSE, exc |-> ValidationError, value |-> NoBody]
    ELSE [ok |-> TRUE, exc |-> JSONDecodeError,
          value |-> WeatherResponse(
              [f \in DOMAIN out.data |->
                  IF \E i \in 1..Len(Lookup) :
                        Lookup[i][2] = f /\ Lookup[i][1] \notin out.present
                  THEN NoData[f] ELSE out.data[f]])]

\* response.json() followed by the construction of WeatherResponse
parse(out) ==
    IF ~out.json THEN [ok |-> FALSE, exc |-> JSONDecodeError, value |-> NoBody]
    ELSE IF FirstMissing(out) # 0
    THEN [ok |-> FALSE, exc |-> KeyError(Lookup[FirstMissing(out)][1]), value |-> NoBody]
    ELSE IF ~out.typed THEN [ok |-> FALSE, exc |-> ValidationError, value |-> NoBody]
    ELSE [ok |-> TRUE, exc |-> JSONDecodeError, value |-> WeatherResponse(out.data)]

\* the duration observed in a finally clause: failures are observed too
after_get_finally(out) ==
    LET R == IF out.kind = "error" THEN except_clauses(RequestError)
             ELSE IF out.status # 200
             THEN except_clauses(HTTPException(404, "City not found"))
             ELSE IF parse(out).ok
             THEN { [status |-> 200, detail |-> <<>>, body |-> parse(out).value,
                     observed |-> TRUE] }
             ELSE except_clauses(parse(out).exc)
    IN { [r EXCEPT !.observed = TRUE] : r \in R }

\* get_weather from the return of client.get to the end of the handler: the
\* set of results the handler can end with
after_get(out) ==
    IF out.kind = "error" THEN except_clauses(RequestError)
    ELSE IF out.status # 200
    THEN except_clauses(HTTPException(404, "City not found"))
    ELSE IF parse(out).ok
    THEN { [status |-> 200, detail |-> <<>>, body |-> parse(out).value,
            observed |-> TRUE] }
    ELSE except_clauses(parse(out).exc)

\* after_get tabulated over the outcomes of client.get
Results == [out \in Outcomes |-> after_get(out)]

(* ---------------------------- state ------------------------------------ *)
VARIABLES
    api_key,           \* OPENWEATHER_API_KEY
    base_url,          \* OPENWEATHER_BASE_URL
    upstream_up,       \* whether the provider can be reached
    weather_requests,  \* value of the counter weather_requests_total
    request_duration,  \* number of observations of request_duration_seconds
    pc,                \* per task: "idle" or "awaiting" (suspended in client.get)
    city,              \* per task: the path parameter of the request in flight
    gets,              \* per task: calls of client.get made by the request
    outbound,          \* calls of client.get made by the process
    last,              \* the response sent last, with what the upstream returned
    succeeded,         \* history: calls to /weather that ended with status 200
    failed,            \* history: calls to /weather that ended with an error
    peak               \* history: largest number of requests in flight at once

vars == <<api_key, base_url, upstream_up, weather_requests, request_duration,
          pc, city, gets, outbound, last, succeeded, failed, peak>>

config == <<api_key, base_url>>
accumulators == <<weather_requests, request_duration>>
history == <<succeeded, failed, peak>>

InFlight == {r \in Slots : pc[r] = "awaiting"}

Reply(ep, res, up, n) ==
    [ep |-> ep, status |-> res.status, detail |-> res.detail, body |-> res.body,
     up |-> up, gets |-> n, observed |-> res.observed]

RootPayload == [kind |-> "json", message |-> "Weather Dashboard API is running!"]
HealthPayload == [kind |-> "json", status |-> "healthy", service |-> "weather-api"]

Static(ep, payload) ==
    [ep |-> ep, status |-> 200, detail |-> <<>>, body |-> payload,
     up |-> NoUp, gets |-> 0, observed |-> FALSE]

Init ==
    /\ api_key \in ApiKeys
    /\ base_url \in BaseUrls
    /\ upstream_up \in BOOLEAN
    /\ weather_requests = 0
    /\ request_duration = 0
    /\ pc = [r \in Slots |-> "idle"]
    /\ city = [r \in Slots |-> ""]
    /\ gets = [r \in Slots |-> 0]
    /\ outbound = 0
    /\ last = [ep |-> "none", status |-> 0, detail |-> <<>>, body |-> NoBody,
               up |-> NoUp, gets |-> 0, observed |-> FALSE]
    /\ succeeded = 0
    /\ failed = 0
    /\ peak = 0

(* ---------------------------- routes ----------------------------------- *)
\* a root that counts its requests
root_counting ==
    /\ weather_requests < MaxRequests
    /\ last' = Static("root", RootPayload)
    /\ weather_requests' = weather_requests + 1
    /\ UNCHANGED <<config, upstream_up, request_duration, pc, city, gets,
                   outbound, history>>

\* GET /
root ==
    /\ last' = Static("root", RootPayload)
    /\ UNCHANGED <<config, upstream_up, accumulators, pc, city, gets, outbound,
                   history>>

\* a health check that probes the provider
health_check_probe ==
    /\ outbound' = outbound + 1
    /\ last' = Static("health",
                      [HealthPayload EXCEPT
                         !.status = IF upstream_up THEN "healthy" ELSE "degraded"])
    /\ UNCHANGED <<config, upstream_up, accumulators, pc, city, gets, history>>

\* GET /health
health_check ==
    /\ last' = Static("health", HealthPayload)
    /\ UNCHANGED <<config, upstream_up, accumulators, pc, city, gets, outbound,
                   history>>

\* GET /metrics: generate_latest() renders the two accumulators
metrics ==
    /\ last' = Static("metrics",
                      [kind |-> "text",
                       weather_requests_total |-> weather_requests,
                       request_duration_seconds_count |-> request_duration])
    /\ UNCHANGED <<config, upstream_up, accumulators, pc, city, gets, outbound,
                   history>>

\* an increment split around a suspension: while another request is in
\* flight the written value is the one read before, and the update is lost
get_weather_enter_lossy(r, c) ==
    /\ pc[r] = "idle"
    /\ weather_requests < MaxRequests
    /\ succeeded + failed + Cardinality(InFlight) < MaxRequests
    /\ weather_requests' = IF InFlight = {} THEN weather_requests + 1
                           ELSE weather_requests
    /\ IF key_missing(api_key)
       THEN /\ \E res \in except_clauses(HTTPException(500, "API key not configured")) :
                  last' = Reply("weather", res, NoUp, 0)
            /\ failed' = failed + 1
            /\ UNCHANGED <<pc, city, gets, outbound, succeeded, peak>>
       ELSE /\ pc' = [pc EXCEPT ![r] = "awaiting"]
            /\ city' = [city EXCEPT ![r] = c]
            /\ gets' = [gets EXCEPT ![r] = 1]
            /\ outbound' = outbound + 1
            /\ peak' = IF Cardinality(InFlight) + 1 > peak
                       THEN Cardinality(InFlight) + 1 ELSE peak
            /\ UNCHANGED <<last, succeeded, failed>>
    /\ UNCHANGED <<config, upstream_up, request_duration>>

\* GET /weather/{city}, from entry to the suspension in client.get: the
\* counter is incremented, the configuration is read, and either the missing
\* key ends the request or the outbound GET is issued
get_weather_enter(r, c) ==
    /\ pc[r] = "idle"
    /\ weather_requests < MaxRequests
    /\ weather_requests' = weather_requests + 1
    /\ IF key_missing(api_key)
       THEN /\ \E res \in except_clauses(HTTPException(500, "API key not configured")) :
                  last' = Reply("weather", res, NoUp, 0)
            /\ failed' = failed + 1
            /\ UNCHANGED <<pc, city, gets, outbound, succeeded, peak>>
       ELSE /\ pc' = [pc EXCEPT ![r] = "awaiting"]
            /\ city' = [city EXCEPT ![r] = c]
            /\ gets' = [gets EXCEPT ![r] = 1]
            /\ outbound' = outbound + 1
            /\ peak' = IF Cardinality(InFlight) + 1 > peak
                       THEN Cardinality(InFlight) + 1 ELSE peak
            /\ UNCHANGED <<last, succeeded, failed>>
    /\ UNCHANGED <<config, upstream_up, request_duration>>

\* what client.get can give: with no base URL the request URL has no scheme
\* and with the provider unreachable the connection fails, both RequestError
GetOutcomes ==
    IF base_url = NoneVal \/ ~upstream_up THEN {TransportFailure} ELSE Outcomes

\* a handler that issues the GET once more after a transport failure
get_weather_resume_retry(r) ==
    /\ pc[r] = "awaiting"
    /\ \E out \in GetOutcomes :
         IF out.kind = "error" /\ gets[r] < 2
         THEN /\ gets' = [gets EXCEPT ![r] = gets[r] + 1]
              /\ outbound' = outbound + 1
              /\ UNCHANGED <<pc, city, last, request_duration, succeeded, failed>>
         ELSE \E res \in Results[out] :
              /\ last' = Reply("weather", res, out, gets[r])
              /\ request_duration' = IF res.observed THEN request_duration + 1
                                     ELSE request_duration
              /\ succeeded' = IF res.status = 200 THEN succeeded + 1 ELSE succeeded
              /\ failed' = IF res.status = 200 THEN failed ELSE failed + 1
              /\ pc' = [pc EXCEPT ![r] = "idle"]
              /\ city' = [city EXCEPT ![r] = ""]
              /\ gets' = [gets EXCEPT ![r] = 0]
              /\ UNCHANGED outbound
    /\ UNCHANGED <<config, upstream_up, weather_requests, peak>>

\* GET /weather/{city}, from the return of client.get to the response
get_weather_resume(r) ==
    /\ pc[r] = "awaiting"
    /\ \E out \in GetOutcomes :
         \E res \in Results[out] :
            /\ last' = Reply("weather", res, out, gets[r])
            /\ request_duration' = IF res.observed THEN request_duration + 1
                                   ELSE request_duration
            /\ succeeded' = IF res.status = 200 THEN succeeded + 1 ELSE succeeded
            /\ failed' = IF res.status = 200 THEN failed ELSE failed + 1
    /\ pc' = [pc EXCEPT ![r] = "idle"]
    /\ city' = [city EXCEPT ![r] = ""]
    /\ gets' = [gets EXCEPT ![r] = 0]
    /\ UNCHANGED <<config, upstream_up, weather_requests, outbound, peak>>

\* the provider becomes reachable or unreachable
upstream_toggle ==
    /\ upstream_up' = ~upstream_up
    /\ UNCHANGED <<config, accumulators, pc, city, gets, outbound, last, history>>

Next ==
    \/ root
    \/ health_check
    \/ metrics
    \/ \E r \in Slots, c \in Cities : get_weather_enter(r, c)
    \/ \E r \in Slots : get_weather_resume(r)
    \/ upstream_toggle

Spec == Init /\ [][Next]_vars

(* ---------------------------- properties ------------------------------- *)
WeatherReply == last.ep = "weather"
KeyConfigured == api_key # NoneVal /\ api_key # ""

\* C1: a non-200 upstream status ends the request with status 404 and the
\* message "City not found", whatever the upstream status or body.
C1_Non200Gives404 ==
    (WeatherReply /\ last.up.kind = "response" /\ last.up.status # 200)
        => (last.status = 404 /\ last.detail = <<"City not found">>)

\* C2: with the API key unset or empty, every call to /weather/{city} ends
\* with status 500 and no outbound GET is ever issued.
C2_MissingKey500NoCall ==
    (api_key = NoneVal \/ api_key = "")
        => /\ outbound = 0
           /\ InFlight = {}
           /\ \A r \in Slots : gets[r] = 0
           /\ WeatherReply => (last.status = 500 /\ last.gets = 0 /\ last.up = NoUp)

C2_Witness ==
    /\ api_key = ""
    /\ WeatherReply
    /\ last.status = 500
    /\ failed >= 2

\* C3: once N calls have succeeded and M have failed, the counter is N+M;
\* the histogram always holds exactly N observations.
C3_CounterAndHistogram ==
    /\ request_duration = succeeded
    /\ InFlight = {} => weather_requests = succeeded + failed

C3_Witness ==
    /\ InFlight = {}
    /\ succeeded >= 1
    /\ failed >= 2
    /\ weather_requests = 3
    /\ request_duration = 1

\* C4: with requests interleaved at the suspension point no increment of the
\* counter is lost: it counts every finished and every suspended request, so
\* once all K handlers have finished it has increased by K.
C4_NoLostIncrement ==
    weather_requests = succeeded + failed + Cardinality(InFlight)

C4_Witness ==
    /\ peak >= 2
    /\ InFlight = {}
    /\ succeeded + failed >= 2
    /\ weather_requests = succeeded + failed

\* C5: a transport failure of the outbound GET ends the request with status
\* 503 and the message "Weather service unavailable", never 500 or 404.
C5_TransportFailure503 ==
    (WeatherReply /\ last.up.kind = "error")
        => (last.status = 503 /\ last.detail = <<"Weather service unavailable">>)

C5_Witness ==
    /\ WeatherReply
    /\ last.up.kind = "error"
    /\ last.status = 503
    /\ ~upstream_up

\* t is s with every letter that starts a run of letters in upper case, every
\* other letter in lower case and every other character unchanged
IsTitleCaseOf(t, s) ==
    /\ Len(t) = Len(s)
    /\ \A i \in 1..Len(s) :
         LET inWord == i > 1 /\ (IsLower(s[i - 1]) \/ IsUpper(s[i - 1])) IN
         IF IsLower(s[i]) \/ IsUpper(s[i])
         THEN IF inWord THEN t[i] = ToLower(s[i]) /\ ~IsUpper(t[i])
                        ELSE t[i] = ToUpper(s[i]) /\ ~IsLower(t[i])
         ELSE t[i] = s[i]

\* C6: a 200 response that carries all expected fields gives a
\* WeatherResponse whose fields are the upstream's, copied unchanged, except
\* description, which is the upstream description in title case.
C6_FieldMapping ==
    (/\ WeatherReply
     /\ last.up.kind = "response"
     /\ last.up.status = 200
     /\ last.up.json
     /\ last.up.typed
     /\ last.up.present = Paths)
        => /\ last.status = 200
           /\ last.body.kind = "WeatherResponse"
           /\ last.body.city = last.up.data.name
           /\ last.body.temperature = last.up.data.temp
           /\ last.body.humidity = last.up.data.humidity
           /\ last.body.wind_speed = last.up.data.speed
           /\ last.body.icon = last.up.data.icon
           /\ last.body.country = last.up.data.country
           /\ IsTitleCaseOf(last.body.description, last.up.data.description)

C6_Witness ==
    /\ WeatherReply
    /\ last.status = 200
    /\ last.up.data.description = <<"l","i","g","h","t"," ","r","a","i","n">>
    /\ last.body.description = <<"L","i","g","h","t"," ","R","a","i","n">>
    /\ last.body.city = "Lahore"

\* C7: a 200 response whose body is not JSON or lacks an expected field ends
\* the request with status 500 carrying the text of the failure, with no
\* WeatherResponse and no duration observed.
C7_Malformed500 ==
    (/\ WeatherReply
     /\ last.up.kind = "response"
     /\ last.up.status = 200
     /\ (~last.up.json \/ last.up.present # Paths))
        => /\ last.status = 500
           /\ last.body = NoBody
           /\ ~last.observed
           /\ IF ~last.up.json
              THEN last.detail = <<JSONDecodeError.msg>>
              ELSE \E f \in Paths \ last.up.present : last.detail = <<f>>

C7_Witness ==
    /\ WeatherReply
    /\ last.up.status = 200
    /\ last.up.json
    /\ last.up.present = Paths \ {"wind.speed"}
    /\ last.status = 500
    /\ request_duration = 0

\* C8: GET / and GET /health can be served in every reachable state, answer
\* with their fixed payloads, and issue no outbound GET.
C8_StaticEndpoints ==
    /\ [](ENABLED root /\ ENABLED health_check)
    /\ [](last.ep = "root" =>
             last.status = 200 /\ last.body.message = "Weather Dashboard API is running!")
    /\ [](last.ep = "health" =>
             /\ last.status = 200
             /\ last.body = [kind |-> "json", status |-> "healthy",
                             service |-> "weather-api"])
    /\ [][(root \/ health_check) => (outbound' = outbound /\ gets' = gets)]_vars

C8_Witness ==
    /\ last.ep = "health"
    /\ last.body.status = "healthy"
    /\ ~upstream_up
    /\ api_key = NoneVal
    /\ base_url = NoneVal
    /\ failed >= 1

\* C9: with the API key configured each call to /weather/{city} issues
\* exactly one outbound GET, whatever its outcome: nothing is retried.
C9_SingleOutboundGet ==
    KeyConfigured
        => /\ \A r \in Slots : gets[r] = (IF pc[r] = "awaiting" THEN 1 ELSE 0)
           /\ WeatherReply => last.gets = 1
           /\ outbound = weather_requests

C9_Witness ==
    /\ KeyConfigured
    /\ WeatherReply
    /\ last.up.kind = "error"
    /\ last.gets = 1
    /\ InFlight = {}
    /\ outbound = 2
    /\ failed = 2

\* C10: GET /, GET /health and GET /metrics leave both accumulators
\* unchanged; only a step of GET /weather/{city} (a handler suspends in the
\* outbound GET, resumes from it, or fails before it) changes them; neither
\* ever decreases
\* and the histogram never holds more observations than the counter counts.
C10_AccumulatorFrame ==
    /\ [](request_duration <= weather_requests)
    /\ [][/\ (root \/ health_check \/ metrics) => UNCHANGED accumulators
          /\ weather_requests' >= weather_requests
          /\ request_duration' >= request_duration
          /\ (accumulators' # accumulators) =>
                \/ \E r \in Slots : pc[r] = "idle" /\ pc'[r] = "awaiting"
                \/ \E r \in Slots : pc[r] = "awaiting" /\ pc'[r] = "idle"
                \/ pc' = pc /\ last'.ep = "weather" /\ failed' = failed + 1]_vars

C10_Witness ==
    /\ last.ep = "metrics"
    /\ last.body.weather_requests_total = 2
    /\ last.body.request_duration_seconds_count = 1
    /\ weather_requests = 2
    /\ request_duration = 1

====
